---- MODULE Spec2Model ----
(***************************************************************************)
(* canvasbg: the base surface CanvasBG (src/src/canvas-bg.ts), its layer   *)
(* registry, the attachment operation use()/bindContext() and the frame    *)
(* loop animate()/callAnimationCallbacks(), with the sample layers         *)
(* StarField, MouseTracker and Constellation as the attached instances.    *)
(*                                                                         *)
(* Objects are numbered; a registry (the object behind `_layers`) and a    *)
(* size record (the object behind `_size`) are named by the instance whose *)
(* field initializer created them, so that two instances holding the same  *)
(* number hold the same object.                                            *)
(***************************************************************************)
EXTENDS Integers, Sequences, FiniteSets, TLC

\* ------------------------------------------------------------------ bounds
MaxUses == 3
MaxFrames == 2

\* ------------------------------------------------------- the instances
\* constructor.name of every object of the model, by object number
ClassOf ==
  <<"CanvasBG", "CanvasBG", "StarField", "StarField", "Constellation",
    "MouseTracker", "Constellation", "Constellation">>

Inst == DOMAIN ClassOf

\* String.prototype.toLowerCase on the four class names
toLowerCase(name) ==
  CASE name = "CanvasBG" -> "canvasbg"
    [] name = "StarField" -> "starfield"
    [] name = "MouseTracker" -> "mousetracker"
    [] name = "Constellation" -> "constellation"

\* the defaultAlias field: "" in the base class, overridden by MouseTracker
defaultAlias(i) ==
  IF ClassOf[i] = "MouseTracker" THEN "mousetracker" ELSE ""

\* the ConstellationConfig object 5 is constructed with: two aliases
ConstellationConfig == [starfield |-> "starfield", mousetracker |-> "mousetracker"]

\* the ConstellationConfig object 7 is constructed with: two instances
ConstellationInstances == [starfield |-> 3, mousetracker |-> 6]

\* typeof this.config.starfield === "string", and the same of mousetracker
configIsString(i) == i = 5

\* object 8 is a Constellation whose init() resolves its two layers with
\* getLayerInstance; objects 5 and 7 are Constellations whose init() reads
\* this.layers and this.config
usesGetLayerInstance(i) == i = 8

\* the ConstellationConfig object 8 is constructed with: the alias of the
\* StarField and the MouseTracker instance
ConstellationSelectors ==
  [starfield |-> [kind |-> "string", name |-> "starfield", ref |-> 0],
   mousetracker |-> [kind |-> "instance", name |-> "", ref |-> 6]]

\* clientWidth / clientHeight of the one canvas element of the page
Client == [width |-> 8, height |-> 6]

\* the options the page passes to use() with each object: "" is the omitted
\* alias and <<>> the omitted zIndex
UseOptions(c) ==
  {[as |-> "", zIndex |-> <<>>]} \cup
  CASE c = 2 -> {[as |-> "", zIndex |-> <<3>>]}
    [] c = 3 -> {[as |-> "", zIndex |-> <<5>>]}
    [] c = 4 -> {[as |-> "sf", zIndex |-> <<1>>]}
    [] OTHER -> {}

\* the targets the page constructs root i with
Targets(i) ==
  IF i = 1
    THEN {[kind |-> "none", ref |-> 0], [kind |-> "element", ref |-> 1],
          [kind |-> "selector", ref |-> 1], [kind |-> "selector", ref |-> 0],
          [kind |-> "other", ref |-> 0]}
    ELSE {[kind |-> "none", ref |-> 0]}

\* the pairs (parent, child) of the page's use() calls
UsePairs ==
  {p \in Inst \X Inst :
     /\ ClassOf[p[1]] = "CanvasBG"
     /\ p[1] # p[2]
     /\ p[2] \in 2..5}

\* the objects constructed by the page as roots (with a target); the other
\* objects are layers constructed without a target
Roots == {i \in Inst : ClassOf[i] = "CanvasBG"}

VARIABLES
  built,          \* the objects whose constructor has run
  live,           \* the objects whose constructor has returned one
  canvas,         \* this.canvas: "undefined", "null" or "canvas"
  ctx,            \* this.ctx: "undefined" or "2d"
  _layers,        \* this._layers: the registry object the instance refers to
  registry,       \* the registry objects: entries in property order
  _size,          \* this._size: the size record the instance refers to
  sizes,          \* the size records
  canvasDim,      \* width and height attributes of the canvas element
  zIndexCounter,  \* this.zIndexCounter
  initCount,      \* number of runs of the init() hook of the instance
  resizeListeners,\* number of resize listeners the instance has installed
  parents,        \* the parents the instance was merged into so far
  pending,        \* requestAnimationFrame callbacks pending, by root
  animated,       \* the roots on which the page has called animate()
  frames,         \* number of frames started
  frame,          \* the record of the last run of animate()
  uses,           \* number of use() calls made
  omitted,        \* number of use() calls on the instance that gave no zIndex
  last,           \* the last call, its zIndex option and its outcome
  client,         \* clientWidth and clientHeight of the canvas element
  configs,        \* this.config of each StarField
  velocity,       \* this.velocity of a StarField
  dots,           \* this.dots: the particle array the instance refers to
  arrays,         \* the particle arrays
  mousePosition,  \* this.mousePosition: the pair the instance refers to
  pairs,          \* the pairs [x, y] that mousePosition fields refer to
  mouseListeners, \* number of mousemove listeners the instance has installed
  log             \* what the draw() calls of the last frame did

vars ==
  <<built, live, canvas, ctx, _layers, registry, _size, sizes, canvasDim,
    zIndexCounter, initCount, resizeListeners, parents, pending, animated,
    frames, frame, uses, omitted, last, client, configs, velocity, dots,
    arrays, mousePosition, pairs, mouseListeners, log>>

\* the fields of the sample layers, and the element's size
layerVars ==
  <<client, configs, velocity, dots, arrays, mousePosition, pairs,
    mouseListeners, log>>

\* ---------------------------------------------------------- registries
\* the entry `__main: { instance: this, config: { as: "__main", zIndex: 0 } }`
MainEntry(i) == [as |-> "__main", instance |-> i, zIndex |-> 0]

\* `reg[key]` is truthy
Has(reg, key) == \E k \in DOMAIN reg : reg[k].as = key

\* `reg[key]`, for a key the registry has
Get(reg, key) == reg[CHOOSE k \in DOMAIN reg : reg[k].as = key]

\* `reg[e.as] = e`: an existing property keeps its place, a new one is last
Put(reg, e) ==
  IF Has(reg, e.as)
    THEN [k \in DOMAIN reg |-> IF reg[k].as = e.as THEN e ELSE reg[k]]
    ELSE Append(reg, e)

\* `delete reg[key]`
Delete(reg, key) == SelectSeq(reg, LAMBDA e : e.as # key)

\* `Object.assign(target, source)` and `{ ...target, ...source }`
RECURSIVE Assign(_, _)
Assign(target, source) ==
  IF source = <<>> THEN target
  ELSE Assign(Put(target, Head(source)), Tail(source))

\* ------------------------------------------------------- bindContext
\* a || b on aliases, "" being the falsy (undefined or empty) alias
OrElse(a, b) == IF a # "" THEN a ELSE b

\* the while loop of nextPossibleAlias: newKey = `${key}${++i}`
RECURSIVE aliasLoop(_, _, _, _)
aliasLoop(reg, key, i, newKey) ==
  IF Has(reg, newKey)
    THEN aliasLoop(reg, key, i + 1, key \o ToString(i + 1))
    ELSE newKey

\* this.nextPossibleAlias(key), reg being this.layers
nextPossibleAlias(reg, key) ==
  IF key = "" THEN "" ELSE aliasLoop(reg, key, 1, key)

\* the fields bindContext reads and writes, and the error it throws
Heap ==
  [canvas |-> canvas, ctx |-> ctx, _layers |-> _layers,
   registry |-> registry, _size |-> _size, sizes |-> sizes,
   canvasDim |-> canvasDim, initCount |-> initCount,
   resizeListeners |-> resizeListeners, parents |-> parents,
   client |-> client, err |-> "none"]

\* document.querySelector(host): selector 1 names the canvas element
querySelector(sel) == IF sel = 1 THEN "canvas" ELSE "null"

\* the alias chosen for `self`: config.as, defaultAlias, class name, each
\* through nextPossibleAlias, which looks in this.layers
chooseAlias(h, self, as) ==
  LET own == h.registry[h._layers[self]]
      className == toLowerCase(ClassOf[self])
  IN OrElse(nextPossibleAlias(own, as),
       OrElse(nextPossibleAlias(own, defaultAlias(self)),
         OrElse(nextPossibleAlias(own, className), className)))

\* the guard of the parent branch: this.layers.__main.instance !== this
alreadyBound(h, self) ==
  Get(h.registry[h._layers[self]], "__main").instance # self

\* bindToParent with the merge going into the parent's registry while the
\* layer keeps its own registry object (a copy instead of a shared reference)
bindToParentCopy(h, self, host, config) ==
  LET as == OrElse(config.as, toLowerCase(ClassOf[self]))
      own == h.registry[h._layers[self]]
      hostReg == h.registry[h._layers[host]]
  IN [h EXCEPT !.canvas[self] = h.canvas[host],
               !._size[self] = h._size[host],
               !.registry[h._layers[host]] =
                  Assign(Put(hostReg, [as |-> as, instance |-> self,
                                       zIndex |-> config.zIndex]), own),
               !.parents[self] = @ \cup {host}]

\* the parent branch of bindContext, after its guard
bindToParent(h, self, host, config) ==
  LET as == chooseAlias(h, self, config.as)
      own == Delete(h.registry[h._layers[self]], "main")
      r1 == [h.registry EXCEPT ![h._layers[self]] = own]
      hostReg == r1[h._layers[host]]
      merged ==
        Assign(Put(hostReg,
                   [as |-> as, instance |-> self, zIndex |-> config.zIndex]),
               own)
  IN [h EXCEPT !.canvas[self] = h.canvas[host],
               !._size[self] = h._size[host],
               !.registry = [r1 EXCEPT ![h._layers[host]] =
                               Assign(hostReg, merged)],
               !._layers[self] = h._layers[host],
               !.parents[self] = @ \cup {host}]

\* resolveHost merging into the parent before it tests for an earlier parent
resolveHostMergeFirst(h, self, host, config) ==
  CASE host.kind = "selector" ->
         [h EXCEPT !.canvas[self] = querySelector(host.ref)]
    [] host.kind = "element" -> [h EXCEPT !.canvas[self] = "canvas"]
    [] host.kind = "instance" ->
         IF alreadyBound(h, self)
           THEN [bindToParent(h, self, host.ref, config) EXCEPT
                   !.err = "OneParent"]
           ELSE bindToParent(h, self, host.ref, config)
    [] OTHER -> [h EXCEPT !.err = "InvalidSelector"]

\* the dispatch on the type of host
resolveHost(h, self, host, config) ==
  CASE host.kind = "selector" ->
         [h EXCEPT !.canvas[self] = querySelector(host.ref)]
    [] host.kind = "element" -> [h EXCEPT !.canvas[self] = "canvas"]
    [] host.kind = "instance" ->
         IF alreadyBound(h, self)
           THEN [h EXCEPT !.err = "OneParent"]
           ELSE bindToParent(h, self, host.ref, config)
    [] OTHER -> [h EXCEPT !.err = "InvalidSelector"]

\* getLayerInstance reading `this.layers[selector]?.instance`, which throws
\* on no selector
getLayerInstanceOptional(reg, selector) == FALSE

\* getLayerInstance(selector) throws: `this.layers[selector].instance` of an
\* alias the registry does not have
getLayerInstanceThrows(reg, selector) ==
  selector.kind = "string" /\ ~Has(reg, selector.name)

\* getLayerInstance(selector): the instance of the entry under an alias (0
\* standing for the undefined of an alias that has no entry), and the
\* selector itself when it is an instance
getLayerInstance(reg, selector) ==
  IF selector.kind = "string"
    THEN IF Has(reg, selector.name) THEN Get(reg, selector.name).instance
         ELSE 0
    ELSE selector.ref

\* this.init(): a no-op in the base class; a Constellation given aliases
\* looks its two dependencies up in this.layers and throws, at the `in` test
\* of the undefined entry, when one is absent; a Constellation that
\* resolves them with getLayerInstance throws in getLayerInstance. What the
\* init() of a sample layer writes to its own fields is initLayer.
init(h, self) ==
  LET h1 == [h EXCEPT !.initCount[self] = @ + 1]
      reg == h.registry[h._layers[self]]
  IN IF \/ /\ ClassOf[self] = "Constellation"
           /\ configIsString(self)
           /\ \/ ~Has(reg, ConstellationConfig.starfield)
              \/ ~Has(reg, ConstellationConfig.mousetracker)
        \/ /\ usesGetLayerInstance(self)
           /\ \/ getLayerInstanceThrows(reg, ConstellationSelectors.starfield)
              \/ getLayerInstanceThrows(reg,
                                        ConstellationSelectors.mousetracker)
       THEN [h1 EXCEPT !.err = "TypeError"]
       ELSE h1

\* finishBind skipping the size capture and the context of a missing canvas
\* instead of dereferencing it
finishBindSkip(h, self) ==
  IF h.canvas[self] # "canvas"
    THEN h
    ELSE [h EXCEPT !.sizes[h._size[self]] = h.client,
                   !.canvasDim = h.client,
                   !.resizeListeners[self] = @ + 1,
                   !.ctx[self] = "2d"]

\* the rest of bindContext: the size capture, initializeCanvas,
\* initResizeListener and getContext
finishBind(h, self) ==
  IF h.canvas[self] # "canvas"
    THEN [h EXCEPT !.err = "TypeError"]
    ELSE LET sz == [h.sizes EXCEPT ![h._size[self]] = h.client]
         IN [h EXCEPT !.sizes = sz,
                      !.canvasDim = sz[h._size[self]],
                      !.resizeListeners[self] = @ + 1,
                      !.ctx[self] = "2d"]

\* bindContext(host, config) on `self`
bindContext(self, host, config) ==
  LET a == resolveHost(Heap, self, host, config)
      b == init(a, self)
  IN IF a.err # "none" THEN a
     ELSE IF b.err # "none" THEN b
     ELSE finishBind(b, self)

\* the assignment of the fields bindContext leaves behind
Commit(h) ==
  /\ canvas' = h.canvas
  /\ ctx' = h.ctx
  /\ _layers' = h._layers
  /\ registry' = h.registry
  /\ _size' = h._size
  /\ sizes' = h.sizes
  /\ canvasDim' = h.canvasDim
  /\ initCount' = h.initCount
  /\ resizeListeners' = h.resizeListeners
  /\ parents' = h.parents

\* ---------------------------------------------------------- operations
\* the StarFieldConfig of `new StarField()`: <<>> is an omitted property
NoConfig == [points |-> <<>>, velocity |-> <<>>, feedFrom |-> ""]

\* the classes that declare a field `dots`, and those that declare a field
\* `mousePosition`
hasDots(i) == ClassOf[i] \in {"StarField", "Constellation"}
hasMousePosition(i) == ClassOf[i] \in {"MouseTracker", "Constellation"}

\* the pair [0, 0] created by the n-th run of init() of instance i, and by
\* its field initializer (n = 0)
pairOf(i, n) == 10 * i + n

\* the field initializers of every instance
Fields ==
  /\ built = Inst \ Roots
  /\ live = Inst \ Roots
  /\ canvas = [i \in Inst |-> "undefined"]
  /\ ctx = [i \in Inst |-> "undefined"]
  /\ _layers = [i \in Inst |-> i]
  /\ registry = [i \in Inst |-> <<MainEntry(i)>>]
  /\ _size = [i \in Inst |-> i]
  /\ sizes = [i \in Inst |-> [width |-> 0, height |-> 0]]
  /\ canvasDim = [width |-> 300, height |-> 150]
  /\ zIndexCounter = [i \in Inst |-> 0]
  /\ initCount = [i \in Inst |-> 0]
  /\ resizeListeners = [i \in Inst |-> 0]
  /\ parents = [i \in Inst |-> {}]
  /\ pending = [i \in Inst |-> 0]
  /\ animated = {}
  /\ frames = 0
  /\ frame = [root |-> 0, cleared |-> FALSE, drawn |-> <<>>,
              raisedBy |-> 0, scheduled |-> FALSE, trace |-> <<>>]
  /\ uses = 0
  /\ omitted = [i \in Inst |-> 0]
  /\ last = [op |-> "init", self |-> 0, kind |-> "none", arg |-> 0,
             z |-> <<>>, err |-> "none"]
  /\ client = Client
  /\ velocity = [i \in Inst |-> <<0, 0, 0>>]
  /\ dots = [i \in Inst |-> IF hasDots(i) THEN i ELSE 0]
  /\ arrays = [i \in Inst |-> <<>>]
  /\ mousePosition = [i \in Inst |-> IF hasMousePosition(i) THEN pairOf(i, 0)
                                      ELSE 0]
  /\ pairs = [n \in {pairOf(i, 0) : i \in {j \in Inst : hasMousePosition(j)}}
               |-> <<0, 0>>]
  /\ mouseListeners = [i \in Inst |-> 0]
  /\ log = <<>>

\* the page of Spec and LoopSpec constructs its layers without a config.
\* These two specifications follow the surface, the registry and the loop;
\* what init() and draw() of the sample layers write to the layers' own
\* fields is followed by SceneSpec.
Init == Fields /\ configs = [i \in Inst |-> NoConfig]

\* new CanvasBG(target): `if (!canvas) return`, else bindContext
Construct(i, target) ==
  /\ i \in Roots \ built
  /\ \A j \in Roots : j < i => j \in live
  /\ target \in Targets(i)
  /\ built' = built \cup {i}
  /\ LET h == IF target.kind = "none" THEN Heap
              ELSE bindContext(i, target, [as |-> "__main", zIndex |-> 0])
     IN /\ Commit(h)
        /\ live' = IF h.err = "none" THEN live \cup {i} ELSE live
        /\ last' = [op |-> "new", self |-> i, kind |-> target.kind,
                    arg |-> target.ref, z |-> <<>>, err |-> h.err]
  /\ UNCHANGED <<zIndexCounter, pending, animated, frames, frame, uses,
                 omitted>>
  /\ UNCHANGED layerVars

\* the zIndex of use(): config?.zIndex || this.zIndexCounter++
zIndexOf(self, z) ==
  IF z # <<>> /\ z[1] # 0 THEN z[1] ELSE zIndexCounter[self]

\* self.use(canvasbg, { as, zIndex }). The counter is incremented before
\* bindContext is called, so it keeps its increment when bindContext throws.
useCall(self, canvasbg, as, z) ==
  /\ uses' = uses + 1
  /\ omitted' = IF z = <<>> THEN [omitted EXCEPT ![self] = @ + 1] ELSE omitted
  /\ zIndexCounter' =
       IF z # <<>> /\ z[1] # 0 THEN zIndexCounter
       ELSE [zIndexCounter EXCEPT ![self] = @ + 1]
  /\ LET h == bindContext(canvasbg, [kind |-> "instance", ref |-> self],
                          [as |-> as, zIndex |-> zIndexOf(self, z)])
     IN /\ Commit(h)
        /\ last' = [op |-> "use", self |-> self, kind |-> "instance",
                    arg |-> canvasbg, z |-> z, err |-> h.err]
  /\ UNCHANGED <<built, live, pending, animated, frames, frame>>

\* the use() calls of the page, which attaches its layers before it starts a
\* loop
use(self, canvasbg, as, z) ==
  /\ <<self, canvasbg>> \in UsePairs
  /\ self \in live /\ canvasbg \in live
  /\ [as |-> as, zIndex |-> z] \in UseOptions(canvasbg)
  /\ animated = {}
  /\ uses < MaxUses
  /\ useCall(self, canvasbg, as, z)
  /\ UNCHANGED layerVars

\* ------------------------------------------------------- the frame loop
\* Array.prototype.sort((a, b) => a.config.zIndex - b.config.zIndex), which
\* is stable: the place entry k of `reg` gets is one more than the number of
\* entries that have a smaller zIndex, or the same zIndex and an earlier place
placeByZ(reg, k) ==
  1 + Cardinality({j \in DOMAIN reg :
                     \/ reg[j].zIndex < reg[k].zIndex
                     \/ reg[j].zIndex = reg[k].zIndex /\ j < k})

sortByZ(reg) ==
  [p \in DOMAIN reg |-> reg[CHOOSE k \in DOMAIN reg : placeByZ(reg, k) = p]]

\* layer.instance.draw() throws: Constellation.draw without a context
drawThrows(i) == ClassOf[i] = "Constellation" /\ ctx[i] = "undefined"

\* the forEach of callAnimationCallbacks over the sorted entries: the
\* instances whose draw() is called, up to and including one that throws
drawAll(sorted) ==
  LET throwing == {k \in DOMAIN sorted : drawThrows(sorted[k].instance)}
      n == IF throwing = {} THEN Len(sorted)
           ELSE CHOOSE k \in throwing : \A j \in throwing : k <= j
  IN [k \in 1..n |-> sorted[k].instance]

\* callAnimationCallbacks() of `self`
callAnimationCallbacks(self) == drawAll(sortByZ(registry[_layers[self]]))

\* the calls animate() makes on the context, the layers and the frame timer,
\* in the order it makes them: clearRect, the draw() calls, and
\* requestAnimationFrame when no draw() has thrown
frameTrace(self, drawn, thrower) ==
  <<[ev |-> "clearRect", by |-> self]>>
    \o [k \in DOMAIN drawn |-> [ev |-> "draw", by |-> drawn[k]]]
    \o (IF thrower = 0
          THEN <<[ev |-> "requestAnimationFrame", by |-> self]>> ELSE <<>>)

\* the instance whose draw() has thrown in the pass `drawn`, or 0
throwerOf(drawn) ==
  IF drawn # <<>> /\ drawThrows(drawn[Len(drawn)])
    THEN drawn[Len(drawn)] ELSE 0

\* the record of a call of animate() that throws for the missing context
noFrame(self) ==
  [root |-> self, cleared |-> FALSE, drawn |-> <<>>, raisedBy |-> 0,
   scheduled |-> FALSE, trace |-> <<>>]

\* animateBody without the guard on this.ctx
animateBodyUnguarded(self) ==
  LET drawn == callAnimationCallbacks(self)
      thrower == throwerOf(drawn)
  IN [root |-> self, cleared |-> TRUE, drawn |-> drawn,
      raisedBy |-> thrower, scheduled |-> thrower = 0,
      trace |-> frameTrace(self, drawn, thrower)]

\* animateBody re-arming the loop whether or not a draw() has thrown
animateBodyRearm(self) ==
  IF ctx[self] = "undefined"
    THEN noFrame(self)
    ELSE LET drawn == callAnimationCallbacks(self)
             thrower == throwerOf(drawn)
         IN [root |-> self, cleared |-> TRUE, drawn |-> drawn,
             raisedBy |-> thrower, scheduled |-> TRUE,
             trace |-> frameTrace(self, drawn, 0)]

\* animateBody clearing the surface after the draw pass instead of before it
animateBodyClearLast(self) ==
  IF ctx[self] = "undefined"
    THEN noFrame(self)
    ELSE LET drawn == callAnimationCallbacks(self)
             thrower == throwerOf(drawn)
             t == frameTrace(self, drawn, thrower)
         IN [root |-> self, cleared |-> TRUE, drawn |-> drawn,
             raisedBy |-> thrower, scheduled |-> thrower = 0,
             trace |-> Tail(t) \o <<Head(t)>>]

\* animateBody never re-arming the loop
animateBodyOnce(self) ==
  IF ctx[self] = "undefined"
    THEN noFrame(self)
    ELSE LET drawn == callAnimationCallbacks(self)
             thrower == throwerOf(drawn)
         IN [root |-> self, cleared |-> TRUE, drawn |-> drawn,
             raisedBy |-> thrower, scheduled |-> FALSE,
             trace |-> frameTrace(self, drawn, 1)]

\* the body of animate() on `self`: the record of the frame
animateBody(self) ==
  IF ctx[self] = "undefined"
    THEN noFrame(self)
    ELSE LET drawn == callAnimationCallbacks(self)
             thrower == throwerOf(drawn)
         IN [root |-> self, cleared |-> TRUE, drawn |-> drawn,
             raisedBy |-> thrower, scheduled |-> thrower = 0,
             trace |-> frameTrace(self, drawn, thrower)]

\* the error animate() throws
animateErr(self, f) ==
  IF ~f.cleared THEN "ContextNotInitialized"
  ELSE IF f.raisedBy # 0 THEN "ContextNotInitialized"
  ELSE "none"

\* self.animate() called by the page, n being the number the frame gets
animateCall(self, n) ==
  /\ animated' = animated \cup {self}
  /\ frame' = animateBody(self)
  /\ frames' = IF frame'.cleared THEN n ELSE frames
  /\ pending' = IF frame'.scheduled THEN [pending EXCEPT ![self] = @ + 1]
                ELSE pending
  /\ last' = [op |-> "animate", self |-> self, kind |-> "none", arg |-> 0,
              z |-> <<>>, err |-> animateErr(self, frame')]
  /\ UNCHANGED <<built, live, canvas, ctx, _layers, registry, _size, sizes,
                 canvasDim, zIndexCounter, initCount, resizeListeners,
                 parents, uses, omitted>>

\* the page calls self.animate(), once for a root
animate(self) ==
  /\ self \in Roots \cap live /\ self \notin animated
  /\ frames < MaxFrames
  /\ animateCall(self, frames + 1)
  /\ UNCHANGED layerVars

\* the callback `() => this.animate()` run by the frame timer, n being the
\* number the frame gets
timerCall(self, n) ==
  /\ frame' = animateBody(self)
  /\ frames' = IF frame'.cleared THEN n ELSE frames
  /\ pending' = [pending EXCEPT ![self] =
                   IF frame'.scheduled THEN @ ELSE @ - 1]
  /\ last' = [op |-> "tick", self |-> self, kind |-> "none", arg |-> 0,
              z |-> <<>>, err |-> animateErr(self, frame')]
  /\ UNCHANGED <<built, live, canvas, ctx, _layers, registry, _size, sizes,
                 canvasDim, zIndexCounter, initCount, resizeListeners,
                 parents, animated, uses, omitted>>

\* the frame timer runs a pending callback
Tick(self) ==
  /\ pending[self] > 0
  /\ frames < MaxFrames
  /\ timerCall(self, frames + 1)
  /\ UNCHANGED layerVars

Next ==
  \/ \E i \in Roots : \E t \in Targets(i) : Construct(i, t)
  \/ \E p \in UsePairs : \E o \in UseOptions(p[2]) :
       use(p[1], p[2], o.as, o.zIndex)
  \/ \E r \in Roots : animate(r)
  \/ \E r \in Roots : Tick(r)

Spec == Init /\ [][Next]_vars

\* ------------------------------------------- the loop under a fair timer
\* A page that attaches up to MaxLoopUses layers to root 1, with the zIndex
\* omitted, zero, negative or positive, and then starts the loop; the frame
\* timer runs every callback it is given, and frames are numbered modulo
\* MaxFrames + 1.
MaxLoopUses == 2

\* the options the page of the loop passes to use() with each object
LoopOptions(c) ==
  {[as |-> "", zIndex |-> <<>>]} \cup
  CASE c = 3 -> {[as |-> "", zIndex |-> <<0>>]}
    [] c = 4 -> {[as |-> "", zIndex |-> <<-1>>], [as |-> "", zIndex |-> <<2>>]}
    [] OTHER -> {}

\* the layers the page of the loop attaches to root 1
LoopLayers == 3..5

LoopUse(canvasbg, as, z) ==
  /\ canvasbg \in LoopLayers
  /\ 1 \in live
  /\ [as |-> as, zIndex |-> z] \in LoopOptions(canvasbg)
  /\ animated = {}
  /\ uses < MaxLoopUses
  /\ useCall(1, canvasbg, as, z)
  /\ UNCHANGED layerVars

LoopAnimate(self) ==
  /\ self \in Roots \cap live /\ self \notin animated
  /\ animateCall(self, (frames + 1) % (MaxFrames + 1))
  /\ UNCHANGED layerVars

\* the frame timer runs the pending callback of `self`
Refresh(self) ==
  /\ pending[self] > 0
  /\ timerCall(self, (frames + 1) % (MaxFrames + 1))
  /\ UNCHANGED layerVars

LoopNext ==
  \/ \E i \in Roots : \E t \in Targets(i) : Construct(i, t)
  \/ \E c \in LoopLayers : \E o \in LoopOptions(c) : LoopUse(c, o.as, o.zIndex)
  \/ \E r \in Roots : LoopAnimate(r)
  \/ \E r \in Roots : Refresh(r)

\* requestAnimationFrame runs every callback it is given
LoopSpec ==
  Init /\ [][LoopNext]_vars /\ \A r \in Roots : WF_vars(Refresh(r))

\* ------------------------------------------------------ the sample layers
\* Numbers. Coordinates and sizes are integers; a scale and the components
\* of a velocity are kept in thousandths (scale 0.2 is 200, velocity 5 is
\* 5000, the default z of 0.001 is 1). Math.random() returns 0 or 1/2 and is
\* kept in halves. The divisions below are exact for the sizes, the random
\* values and the velocities of SceneConfigs.
Margin == 250
DefaultPoints == 150
Thousand == 1000

\* the default of this.velocity: { x: 0, y: 0, z: 0.001 }
DefaultVelocity == <<0, 0, 1>>

\* the sequences of values Math.random() returns during one call
Patterns == 0..2

\* Math.random(): value n of the sequence p, in halves
random(p, n) ==
  CASE p = 0 -> 0
    [] p = 1 -> 1
    [] p = 2 -> n % 2

\* Math.random() * range
randomTimes(p, n, range) == (random(p, n) * range) \div 2

\* mathRandBetween(min, max)
mathRandBetween(p, n, min, max) == randomTimes(p, n, max - min) + min

\* the particle pushed by round i of initializePoints (i counted from 0)
newParticle(p, i, size) ==
  [x |-> randomTimes(p, 3 * i, size.width + 2 * Margin) - Margin,
   y |-> randomTimes(p, 3 * i + 1, size.height + 2 * Margin) - Margin,
   scale |-> 200 + randomTimes(p, 3 * i + 2, Thousand - 200)]

\* initializePoints(pointCount) on the array `arr`
initializePoints(arr, pointCount, size, p) ==
  arr \o [i \in 1..pointCount |-> newParticle(p, i - 1, size)]

\* (config.points) || 150
pointsOrDefault(cfg) ==
  IF cfg.points # <<>> /\ cfg.points[1] # 0 THEN cfg.points[1]
  ELSE DefaultPoints

\* (config.velocity) || { x: 0, y: 0, z: 0.001 }
velocityOrDefault(cfg) ==
  IF cfg.velocity # <<>> THEN cfg.velocity ELSE DefaultVelocity

\* the drift of one particle in updateParticles: the scale first, then the
\* two coordinates with the new scale
drift(pt, size, v) ==
  LET sc == pt.scale + v[3]
      zoom == (sc * v[3]) \div (2 * Thousand)
  IN [x |-> pt.x + ((pt.x - size.width \div 2) * zoom) \div Thousand
                 + (v[1] * sc) \div (Thousand * Thousand),
      y |-> pt.y + ((pt.y - size.height \div 2) * zoom) \div Thousand
                 + (v[2] * sc) \div (Thousand * Thousand),
      scale |-> sc]

\* outOfBounds taking the right and bottom bounds as outside
outOfBoundsInclusive(pt, size) ==
  \/ pt.x < 0
  \/ pt.x >= size.width + Margin
  \/ pt.y < 0
  \/ pt.y >= size.height

\* outOfBounds extending the bottom bound by the margin, as the right one
outOfBoundsSymmetric(pt, size) ==
  \/ pt.x < 0
  \/ pt.x > size.width + Margin
  \/ pt.y < 0
  \/ pt.y > size.height + Margin

\* the test of updateParticles for a particle that has left the bounds
outOfBounds(pt, size) ==
  \/ pt.x < 0
  \/ pt.x > size.width + Margin
  \/ pt.y < 0
  \/ pt.y > size.height

\* regenerateParticle feeding from the opposite edge
regenerateOpposite(pt, size, feedFrom, p, n) ==
  LET direction == IF feedFrom # "" THEN feedFrom ELSE "anywhere"
      anyX == mathRandBetween(p, n, -Margin, size.width + Margin)
      anyY == mathRandBetween(p, n + 1, -Margin, size.height + Margin)
      sc == mathRandBetween(p, n + 2, 200, Thousand)
  IN CASE direction = "anywhere" -> [x |-> anyX, y |-> anyY, scale |-> sc]
       [] direction = "bottom" ->
            [x |-> anyX, y |-> mathRandBetween(p, n + 1, -Margin, 0),
             scale |-> sc]
       [] direction = "top" ->
            [x |-> anyX,
             y |-> mathRandBetween(p, n + 1, size.height,
                                   size.height + Margin),
             scale |-> sc]
       [] direction = "right" ->
            [x |-> mathRandBetween(p, n, -Margin, 0), y |-> anyY,
             scale |-> sc]
       [] direction = "left" ->
            [x |-> mathRandBetween(p, n, size.width, size.width + Margin),
             y |-> anyY, scale |-> sc]
       [] OTHER -> pt

\* regenerateParticle(point), its three values of Math.random() being those
\* numbered n, n + 1 and n + 2
regenerateParticle(pt, size, feedFrom, p, n) ==
  LET direction == IF feedFrom # "" THEN feedFrom ELSE "anywhere"
      anyX == mathRandBetween(p, n, -Margin, size.width + Margin)
      anyY == mathRandBetween(p, n + 1, -Margin, size.height + Margin)
      sc == mathRandBetween(p, n + 2, 200, Thousand)
  IN CASE direction = "anywhere" -> [x |-> anyX, y |-> anyY, scale |-> sc]
       [] direction = "top" ->
            [x |-> anyX, y |-> mathRandBetween(p, n + 1, -Margin, 0),
             scale |-> sc]
       [] direction = "bottom" ->
            [x |-> anyX,
             y |-> mathRandBetween(p, n + 1, size.height,
                                   size.height + Margin),
             scale |-> sc]
       [] direction = "left" ->
            [x |-> mathRandBetween(p, n, -Margin, 0), y |-> anyY,
             scale |-> sc]
       [] direction = "right" ->
            [x |-> mathRandBetween(p, n, size.width, size.width + Margin),
             y |-> anyY, scale |-> sc]
       [] OTHER -> pt

\* what the callback of updateParticles does to one particle: the particle
\* after its drift, whether it is regenerated, and the particle it leaves
updateParticle(pt, size, v, feedFrom, p, n) ==
  LET moved == drift(pt, size, v)
      out == outOfBounds(moved, size)
  IN [moved |-> moved, regenerated |-> out,
      now |-> IF out THEN regenerateParticle(moved, size, feedFrom, p, n)
              ELSE moved]

\* updateParticles removing a particle that has left the bounds
updateParticlesDropping(arr, size, v, feedFrom, p, q) ==
  SelectSeq([k \in DOMAIN arr |-> drift(arr[k], size, v)],
            LAMBDA pt : ~outOfBounds(pt, size))

\* updateParticles() on the array `arr`: the forEach over this.dots. The
\* values of Math.random() are inputs of the frame: particle k takes those
\* numbered from 3 * (k - 1) + q, q being the number of the pass.
updateParticles(arr, size, v, feedFrom, p, q) ==
  [k \in DOMAIN arr |->
     updateParticle(arr[k], size, v, feedFrom, p, 3 * (k - 1) + q).now]

\* what a pass of updateParticles of instance i did, particle by particle
updateLog(i, arr, size, v, feedFrom, p, q) ==
  [k \in DOMAIN arr |->
     [ev |-> "update", by |-> i, k |-> k, size |-> size,
      was |-> arr[k]] @@
     updateParticle(arr[k], size, v, feedFrom, p, 3 * (k - 1) + q)]

\* the fields of the sample layers that init() and draw() write
Layers ==
  [velocity |-> velocity, dots |-> dots, arrays |-> arrays,
   mousePosition |-> mousePosition, pairs |-> pairs,
   mouseListeners |-> mouseListeners, log |-> log]

\* StarField.init(): the velocity, and initializePoints with the shared size
StarFieldInit(h, l, self, p) ==
  [l EXCEPT !.velocity[self] = velocityOrDefault(configs[self]),
            !.arrays[l.dots[self]] =
               initializePoints(@, pointsOrDefault(configs[self]),
                                h.sizes[h._size[self]], p)]

\* MouseTracker.init(): one more mousemove listener, and a new pair [0, 0]
MouseTrackerInit(h, l, self) ==
  LET n == pairOf(self, h.initCount[self] + 1)
  IN [l EXCEPT !.mouseListeners[self] = @ + 1,
               !.mousePosition[self] = n,
               !.pairs = (n :> <<0, 0>>) @@ @]

\* Constellation.init(). Given an alias, `starfield` is the registry entry
\* { instance, config }, which has no property `dots`, and `mousetracker` is
\* the entry, which has no property `mousePosition`: the two fields keep the
\* Constellation's own array and pair (an absent entry throws at the `in`
\* test, before any write). Given instances, the fields take the array and
\* the pair the instances refer to. The Constellation that resolves its
\* layers with getLayerInstance takes the array and the pair of the
\* instances getLayerInstance returns.
ConstellationInit(h, l, self) ==
  IF usesGetLayerInstance(self)
    THEN LET reg == h.registry[h._layers[self]]
             sf == getLayerInstance(reg, ConstellationSelectors.starfield)
             mt == getLayerInstance(reg, ConstellationSelectors.mousetracker)
         IN [l EXCEPT
               !.dots[self] = IF sf \in Inst THEN l.dots[sf] ELSE 0,
               !.mousePosition[self] =
                  IF mt \in Inst THEN l.mousePosition[mt] ELSE 0]
  ELSE IF configIsString(self)
    THEN l
    ELSE [l EXCEPT
            !.dots[self] =
               IF hasDots(ConstellationInstances.starfield)
                 THEN l.dots[ConstellationInstances.starfield] ELSE @,
            !.mousePosition[self] =
               IF hasMousePosition(ConstellationInstances.mousetracker)
                 THEN l.mousePosition[ConstellationInstances.mousetracker]
                 ELSE @]

\* what this.init() of `self` writes to the fields of the sample layers, h
\* being the fields of bindContext when init() is called
initLayer(h, l, self, p) ==
  CASE ClassOf[self] = "StarField" -> StarFieldInit(h, l, self, p)
    [] ClassOf[self] = "MouseTracker" -> MouseTrackerInit(h, l, self)
    [] ClassOf[self] = "Constellation" -> ConstellationInit(h, l, self)
    [] OTHER -> l

\* Constellation.draw() with a context: the marker at the mouse position,
\* and Delaunay.from over the mouse position and the particles unless
\* dots.length < 5
ConstellationDraw(l, self) ==
  LET n == Len(l.arrays[l.dots[self]])
  IN [ev |-> "constellation", by |-> self,
      marker |-> l.pairs[l.mousePosition[self]],
      triangulated |-> ~(n < 5),
      points |-> IF n < 5 THEN 0 ELSE 1 + n]

\* draw() of instance i, as pass q of a frame with the random sequence p
drawLayer(l, i, p, q) ==
  CASE ClassOf[i] = "StarField" ->
         LET a == l.dots[i]
             size == sizes[_size[i]]
             fd == configs[i].feedFrom
             lg == updateLog(i, l.arrays[a], size, velocity[i], fd, p, q)
         IN [l EXCEPT
               !.arrays[a] = updateParticles(@, size, velocity[i], fd, p, q),
               !.log = @ \o lg]
    [] ClassOf[i] = "Constellation" /\ ~drawThrows(i) ->
         [l EXCEPT !.log = Append(@, ConstellationDraw(l, i))]
    [] OTHER -> l

\* the draw() calls of a frame, in the order of `drawn`
RECURSIVE drawLayers(_, _, _, _)
drawLayers(l, drawn, p, q) ==
  IF drawn = <<>> THEN l
  ELSE drawLayers(drawLayer(l, Head(drawn), p, q), Tail(drawn), p, q + 1)

\* the assignment of the fields of the sample layers
CommitLayers(l) ==
  /\ velocity' = l.velocity
  /\ dots' = l.dots
  /\ arrays' = l.arrays
  /\ mousePosition' = l.mousePosition
  /\ pairs' = l.pairs
  /\ mouseListeners' = l.mouseListeners
  /\ log' = l.log

\* ------------------------------------------- the StarField and the scene
\* StarSpec: a page that binds root 1, attaches a StarField (3) up to
\* MaxStarUses times, while its pool has room for the particles of one more
\* init() within MaxPool, and starts the loop, which runs MaxSceneFrames
\* frames; the element is resized while the loop runs.
\* SceneSpec: a page that binds root 1, attaches a StarField (3), a
\* MouseTracker (6), the Constellation given aliases (5), the one given
\* instances (7) and the one that resolves its layers with getLayerInstance
\* (8), up to MaxSceneUses times, in the order of SceneLayers or a part of
\* it, and starts the loop; the pointer moves while the loop runs.
MaxStarUses == 2
MaxPool == 150
MaxSceneUses == 3
MaxSceneFrames == 2

\* the StarFieldConfig the page of StarSpec constructs the StarField with.
\* With these velocities, the sizes of ClientSizes and the values of
\* Math.random() of Patterns, every product of updateParticles is a whole
\* number of thousandths, so that the integer arithmetic of `drift` is that
\* of the code.
StarConfigs ==
  {[points |-> <<0>>, velocity |-> <<0, 0, 0>>, feedFrom |-> "top"],
   [points |-> <<1>>, velocity |-> <<0, 0, 0>>, feedFrom |-> ""],
   [points |-> <<3>>, velocity |-> <<0, 0, 0>>, feedFrom |-> "anywhere"],
   [points |-> <<2>>, velocity |-> <<0, 0, 0>>, feedFrom |-> "bottom"],
   [points |-> <<4>>, velocity |-> <<0, -5000, 0>>, feedFrom |-> "left"],
   [points |-> <<5>>, velocity |-> <<5000, 0, 10000>>, feedFrom |-> "right"]}

\* the StarFieldConfig the page of SceneSpec constructs the StarField with
SceneConfigs ==
  {[points |-> <<4>>, velocity |-> <<0, 0, 0>>, feedFrom |-> "anywhere"],
   [points |-> <<5>>, velocity |-> <<0, 0, 0>>, feedFrom |-> "left"]}

\* the layers of the scene, in the order the page attaches them: object 8
\* before the layers it names, or after them
SceneLayers == <<8, 3, 6, 5, 7, 8>>

\* the page attaches c at a place of SceneLayers that is not before the one
\* it has attached `prev` at
follows(prev, c) ==
  \E j, k \in DOMAIN SceneLayers :
    j <= k /\ SceneLayers[j] = prev /\ SceneLayers[k] = c

\* the positions of the pointer, and the sizes of the element
MousePoints == {<<5, 4>>}
ClientSizes == {Client, [width |-> 4, height |-> 2]}

\* the random sequences that make a difference to the init() of c
PatternsOf(c) == IF ClassOf[c] = "StarField" THEN Patterns ELSE {0}

StarInit ==
  /\ Fields
  /\ \E c \in StarConfigs :
       configs = [i \in Inst |-> IF i = 3 THEN c ELSE NoConfig]

SceneInit ==
  /\ Fields
  /\ \E c \in SceneConfigs :
       configs = [i \in Inst |-> IF i = 3 THEN c ELSE NoConfig]

\* root 1 .use(canvasbg), with what init() of canvasbg writes to its fields
SceneUse(canvasbg, p) ==
  /\ 1 \in live
  /\ p \in PatternsOf(canvasbg)
  /\ last.op = "use" => follows(last.arg, canvasbg)
  /\ animated = {}
  /\ uses < MaxSceneUses
  /\ useCall(1, canvasbg, "", <<>>)
  /\ LET a == resolveHost(Heap, canvasbg, [kind |-> "instance", ref |-> 1],
                          [as |-> "", zIndex |-> zIndexOf(1, <<>>)])
     IN \E l \in {IF a.err = "none" /\ init(a, canvasbg).err = "none"
                    THEN initLayer(a, Layers, canvasbg, p)
                    ELSE Layers} :
          CommitLayers(l)
  /\ UNCHANGED <<client, configs>>

\* root 1 .animate() called by the page, with what the draw() calls write
SceneAnimate(p) ==
  /\ 1 \in live /\ 1 \notin animated
  /\ frames < MaxSceneFrames
  /\ animateCall(1, frames + 1)
  /\ \E l \in {drawLayers([Layers EXCEPT !.log = <<>>], frame'.drawn, p, 0)} :
       CommitLayers(l)
  /\ UNCHANGED <<client, configs>>

\* the frame timer runs the pending callback of root 1
SceneTick(p) ==
  /\ pending[1] > 0
  /\ frames < MaxSceneFrames
  /\ timerCall(1, frames + 1)
  /\ \E l \in {drawLayers([Layers EXCEPT !.log = <<>>], frame'.drawn, p, 0)} :
       CommitLayers(l)
  /\ UNCHANGED <<client, configs>>

\* a mousemove event at pt: every listener of a MouseTracker that has a
\* canvas writes the pair its mousePosition refers to (the canvas is at the
\* origin of the page)
MouseMove(pt) ==
  /\ animated # {}
  /\ \E i \in Inst : mouseListeners[i] > 0
  /\ pairs' =
       [n \in DOMAIN pairs |->
          IF \E i \in Inst : /\ mouseListeners[i] > 0
                             /\ canvas[i] = "canvas"
                             /\ mousePosition[i] = n
            THEN pt ELSE pairs[n]]
  /\ last' = [op |-> "mousemove", self |-> 0, kind |-> "none", arg |-> 0,
              z |-> <<>>, err |-> "none"]
  /\ UNCHANGED <<built, live, canvas, ctx, _layers, registry, _size, sizes,
                 canvasDim, zIndexCounter, initCount, resizeListeners,
                 parents, pending, animated, frames, frame, uses, omitted,
                 client, configs, velocity, dots, arrays, mousePosition,
                 mouseListeners, log>>

\* the element gets the size sz and a resize event is dispatched: every
\* listener installed by initResizeListener writes the shared size record
\* and runs initializeCanvas
Resize(sz) ==
  /\ animated # {}
  /\ sz # client
  /\ client' = sz
  /\ sizes' =
       [n \in DOMAIN sizes |->
          IF \E i \in Inst : resizeListeners[i] > 0 /\ _size[i] = n
            THEN sz ELSE sizes[n]]
  /\ canvasDim' =
       IF \E i \in Inst : resizeListeners[i] > 0 THEN sz ELSE canvasDim
  /\ last' = [op |-> "resize", self |-> 0, kind |-> "none", arg |-> 0,
              z |-> <<>>, err |-> "none"]
  /\ UNCHANGED <<built, live, canvas, ctx, _layers, registry, _size,
                 zIndexCounter, initCount, resizeListeners, parents, pending,
                 animated, frames, frame, uses, omitted, configs, velocity,
                 dots, arrays, mousePosition, pairs, mouseListeners, log>>

\* root 1 .use(the StarField)
StarUse(p) ==
  /\ uses < MaxStarUses
  /\ Len(arrays[dots[3]]) + pointsOrDefault(configs[3]) <= MaxPool
  /\ SceneUse(3, p)

StarNext ==
  \/ \E t \in Targets(1) : Construct(1, t)
  \/ \E p \in Patterns : StarUse(p)
  \/ \E p \in Patterns : SceneAnimate(p)
  \/ \E p \in Patterns : SceneTick(p)
  \/ \E sz \in ClientSizes : Resize(sz)

StarSpec == StarInit /\ [][StarNext]_vars

SceneNext ==
  \/ \E t \in Targets(1) : Construct(1, t)
  \/ \E k \in DOMAIN SceneLayers : \E p \in Patterns :
       SceneUse(SceneLayers[k], p)
  \/ \E p \in Patterns : SceneAnimate(p)
  \/ \E p \in Patterns : SceneTick(p)
  \/ \E pt \in MousePoints : MouseMove(pt)

SceneSpec == SceneInit /\ [][SceneNext]_vars

\* ------------------------------------------------------------ properties
\* the instances of a sequence of registry entries
Instances(seq) == [k \in DOMAIN seq |-> seq[k].instance]

\* the number of places of a sequence that hold i
Count(seq, i) == Cardinality({k \in DOMAIN seq : seq[k] = i})

\* the step is a call of use()
UseStep == uses' # uses

\* the step is a call of use() on a root that is bound to the canvas element
UseOnCanvas == UseStep /\ canvas[last'.self] = "canvas"

\* the step runs the body of animate(), from the page or from the timer
FrameStep ==
  /\ last'.op \in {"animate", "tick"}
  /\ animated' # animated \/ frames' # frames \/ pending' # pending

\* the layers attached to root r: the instances whose only parent is r
LayersOf(r) == {c \in Inst : parents[c] = {r}}

\* the layers attached to root r after the step
LayersAfter(r) == {c \in Inst : parents'[c] = {r}}

\* C1: alias uniqueness. No use() on a root overwrites an entry of a registry: every
\* entry under an alias other than __main is, after the call, still there
\* with the same instance and zIndex, so that two unlabeled StarFields
\* attached to one root are both registered.
C1_AliasUniqueness ==
  [][UseOnCanvas =>
       \A r \in Inst : \A k \in DOMAIN registry[r] :
         registry[r][k].as # "__main" =>
           /\ Has(registry'[r], registry[r][k].as)
           /\ Get(registry'[r], registry[r][k].as) = registry[r][k]]_vars

\* C2: single-parent attachment. A use() call is rejected with the
\* one-parent error exactly when the instance passed to it has been attached
\* to a parent before.
C2_SingleParent ==
  [][UseOnCanvas =>
       ((last'.err = "OneParent") <=> (parents[last'.arg] # {}))]_vars

\* C3: reserved root alias. In every state the entry __main of the registry
\* an instance created refers to that instance.
C3_ReservedRootAlias ==
  \A r \in Inst :
    /\ Has(registry[r], "__main")
    /\ Get(registry[r], "__main").instance = r

\* C4: draw order. In a frame that completes, the draw invocations other
\* than the root's own are the attached layers (the entries under the
\* aliases other than __main) in ascending zIndex order.
C4_DrawOrder ==
  (frame.cleared /\ frame.raisedBy = 0) =>
    SelectSeq(frame.drawn, LAMBDA i : i # frame.root) =
      Instances(sortByZ(SelectSeq(registry[_layers[frame.root]],
                                  LAMBDA e : e.as # "__main")))

\* C5: one draw per layer per frame. In a frame that completes, every layer
\* attached to the root has its draw() invoked exactly once.
C5_OneDrawPerLayer ==
  (frame.cleared /\ frame.raisedBy = 0) =>
    \A c \in LayersOf(frame.root) : Count(frame.drawn, c) = 1

\* C6: shared registry. After every step a root and every layer attached
\* to it (by use() calls on that root) refer to one and the same registry
\* object, which is not the layer's own; and the entry a use() adds is, right
\* after the call, found through the root and through every such layer.
C6_SharedRegistry ==
  [][/\ \A r \in Inst : \A c \in LayersAfter(r) :
          _layers'[c] = _layers'[r] /\ _layers'[c] # c
     /\ (UseStep /\ last'.err # "OneParent") =>
          \A x \in {last'.self} \cup LayersAfter(last'.self) :
            \E k \in DOMAIN registry'[_layers'[x]] :
              /\ registry'[_layers'[x]][k].instance = last'.arg
              /\ registry'[_layers'[x]][k].as # "__main"]_vars

\* two layers attached to one root, the later one visible through the
\* registry of the earlier one
C6_Witness ==
  \E r \in Inst : \E c, d \in LayersOf(r) :
    /\ c # d
    /\ _layers[c] = _layers[r]
    /\ \E k \in DOMAIN registry[_layers[c]] :
         registry[_layers[c]][k].instance = d
    /\ \E k \in DOMAIN registry[_layers[d]] :
         registry[_layers[d]][k].instance = c

\* C7: deferred binding. use(child) on a root constructed without a target,
\* with a StarField that was never attached, raises nothing and registers
\* the child.
C7_DeferredBinding ==
  [][(/\ UseStep
      /\ canvas[last'.self] = "undefined"
      /\ ClassOf[last'.arg] = "StarField"
      /\ parents[last'.arg] = {})
       => /\ last'.err = "none"
          /\ \E k \in DOMAIN registry'[_layers'[last'.self]] :
               registry'[_layers'[last'.self]][k].instance = last'.arg]_vars

\* the constructor was given a selector that resolves to no element
UnresolvedSelector ==
  last.op = "new" /\ last.kind = "selector" /\ querySelector(last.arg) = "null"

C9_AnimateWithoutContext ==
  [][\A r \in Inst :
       (r \notin animated /\ r \in animated' /\ ctx[r] = "undefined") =>
         /\ last'.err = "ContextNotInitialized"
         /\ frame'.root = r
         /\ ~frame'.cleared
         /\ frame'.drawn = <<>>
         /\ ~frame'.scheduled
         /\ pending' = pending
         /\ frames' = frames]_vars

\* animate() has just failed on a surface without context whose registry
\* holds attached layers
C9_Witness ==
  /\ last.op = "animate"
  /\ ctx[last.self] = "undefined"
  /\ last.err = "ContextNotInitialized"
  /\ Len(registry[_layers[last.self]]) > 1

\* C10: an error halts the loop. When a draw() raises during a frame, the
\* error leaves animate(), the draws made are the entries in z-order up to
\* the one that raised, no later entry is drawn, no next frame is scheduled,
\* and a root that was animated and has no callback pending never runs a
\* frame again.
C10_ErrorHaltsLoop ==
  [][/\ (FrameStep /\ frame'.raisedBy # 0) =>
          LET r == frame'.root
              seq == Instances(sortByZ(registry[_layers[r]]))
          IN /\ last'.err # "none"
             /\ \E k \in DOMAIN seq :
                  /\ seq[k] = frame'.raisedBy
                  /\ drawThrows(seq[k])
                  /\ \A j \in 1..(k - 1) : ~drawThrows(seq[j])
                  /\ frame'.drawn = SubSeq(seq, 1, k)
             /\ ~frame'.scheduled
             /\ pending'[r] = 0
     /\ \A r \in Inst :
          (r \in animated /\ pending[r] = 0) =>
            /\ pending'[r] = 0
            /\ ~(FrameStep /\ frame'.root = r)]_vars

\* a frame has raised before reaching an attached layer that is later in
\* z-order
C10_Witness ==
  /\ frame.cleared
  /\ frame.raisedBy # 0
  /\ last.err = "ContextNotInitialized"
  /\ \E k \in DOMAIN registry[_layers[frame.root]] :
       Count(frame.drawn, registry[_layers[frame.root]][k].instance) = 0

\* C14: a rejected re-attachment has no effect on the first root. When an
\* instance attached to a root A is passed to use() of another root B and the
\* call is rejected with the one-parent error, every registry object is what
\* it was before the call (so A's aliases, instances and zIndex values are
\* kept and B's registry has no entry for the instance) and every instance
\* refers to the registry object it referred to.
C14_RejectedReattachment ==
  [][(/\ UseStep
      /\ last'.err = "OneParent"
      /\ parents[last'.arg] # {}
      /\ last'.self \notin parents[last'.arg])
       => /\ registry' = registry
          /\ _layers' = _layers
          /\ parents' = parents]_vars

\* root 2 has just rejected an instance that is attached to root 1 and found
\* in the registry of root 1
C14_Witness ==
  /\ last.op = "use"
  /\ last.err = "OneParent"
  /\ last.self = 2
  /\ parents[last.arg] = {1}
  /\ \E k \in DOMAIN registry[_layers[1]] :
       registry[_layers[1]][k].instance = last.arg
  /\ \A k \in DOMAIN registry[_layers[2]] :
       registry[_layers[2]][k].instance # last.arg

\* C12: frame structure. In every frame the surface clear is the first call
\* and every draw() of the frame comes after it; the re-arming of the loop is
\* the last call of the frame, made after the last draw(), so that the next
\* frame begins only after the pass is complete; and, animate() being called
\* once on a root, at most one next-frame callback of the root is pending.
C12_FrameStructure ==
  [][/\ (FrameStep /\ frame'.cleared) =>
          LET t == frame'.trace
              n == Len(frame'.drawn)
          IN /\ Len(t) >= 1 + n
             /\ t[1] = [ev |-> "clearRect", by |-> frame'.root]
             /\ \A k \in 1..n :
                  t[1 + k] = [ev |-> "draw", by |-> frame'.drawn[k]]
             /\ \A k \in (n + 2)..Len(t) :
                  /\ k = n + 2
                  /\ t[k] = [ev |-> "requestAnimationFrame",
                             by |-> frame'.root]
                  /\ frame'.scheduled
             /\ frame'.scheduled => Len(t) = n + 2
     /\ \A r \in Inst : pending'[r] <= 1]_vars

\* a second frame of a root has run its pass over several entries and has
\* re-armed the loop
C12_Witness ==
  /\ last.op = "tick"
  /\ frame.cleared
  /\ Len(frame.drawn) >= 3
  /\ frame.scheduled
  /\ pending[frame.root] = 1

\* C11: the unbounded loop. For every root: if animate() is called on the
\* root while it has a drawing context and no draw() of a frame of the root
\* ever raises, then, the timer running every callback it is given, frames
\* of the root occur infinitely often.
C11_UnboundedLoop ==
  \A r \in Roots :
    (/\ <>(r \in animated /\ ctx[r] = "2d")
     /\ [](frame.root = r => frame.raisedBy = 0))
      => []<><<Refresh(r)>>_vars

\* the loop of a root with attached layers has run more frames than the
\* frame numbers distinguish
C11_Witness ==
  /\ last.op = "tick"
  /\ frames = 0
  /\ pending[last.self] = 1
  /\ Len(frame.drawn) >= 2

\* the entries of the registry of r (other than __main) that hold instance c
EntriesOf(reg, c) ==
  {k \in DOMAIN reg : reg[k].instance = c /\ reg[k].as # "__main"}

\* C13: zIndex assignment. A use() call on a canvas-bound root that raises
\* nothing records the child under the zIndex given, whatever integer it is,
\* and leaves the counter of the root as it was; with the zIndex omitted it
\* records the number of earlier use() calls on the root that omitted the
\* zIndex and adds one to the counter.
C13_ZIndexAssignment ==
  [][(UseOnCanvas /\ last'.err = "none") =>
       LET r == last'.self
           reg == registry'[_layers'[r]]
       IN /\ EntriesOf(reg, last'.arg) # {}
          /\ \A k \in EntriesOf(reg, last'.arg) :
               reg[k].zIndex =
                 IF last'.z # <<>> THEN last'.z[1] ELSE omitted[r]
          /\ zIndexCounter'[r] =
               IF last'.z # <<>> THEN zIndexCounter[r]
               ELSE zIndexCounter[r] + 1]_vars

\* the step runs init() of instance c for the first time
FirstInit(c) == initCount[c] = 0 /\ initCount'[c] = 1

\* the pool of StarField c
Pool(c) == arrays[dots[c]]

\* C15: pool size at initialization. For every point count N >= 0 the
\* StarField is configured with, N = 0 included, the pool of the StarField
\* holds exactly N particles after its initialization by use(); with no
\* point count configured it holds 150.
C15_PoolSizeAtInit ==
  [][\A c \in Inst :
       (ClassOf[c] = "StarField" /\ UseStep /\ FirstInit(c)) =>
         Len(Pool(c)') = IF configs[c].points # <<>>
                           THEN configs[c].points[1]
                           ELSE DefaultPoints]_vars

\* the step is a frame that calls draw() of instance c
FrameOf(c) == FrameStep /\ Count(frame'.drawn, c) > 0

\* pt lies in [0, width + 250] x [0, height]
InsideBounds(pt, size) ==
  /\ 0 <= pt.x /\ pt.x <= size.width + 250
  /\ 0 <= pt.y /\ pt.y <= size.height

\* the StarFields whose velocity is (0, 0, 0)
StillFields ==
  {c \in Inst : ClassOf[c] = "StarField" /\ velocity[c] = <<0, 0, 0>>}

\* C16 as stated: zero-velocity stillness. For a StarField configured with
\* velocity (0, 0, 0), every particle has after a frame the position and the
\* scale it had before it, wherever the initialization has put it in the box
\* extended 250 units beyond the surface on all sides.
C16_ZeroVelocityStillness ==
  [][\A c \in StillFields : FrameOf(c) => Pool(c)' = Pool(c)]_vars

\* C16 amended: for a StarField configured with velocity (0, 0, 0), in every
\* frame a particle that lies in [0, width + 250] x [0, height] of the
\* current size of the surface keeps its position and its scale, and a
\* particle that lies outside (as the initialization puts every particle it
\* places in the margin above, left of or below the surface) is regenerated
\* by the first draw() of the frame.
C16_StillInsideBounds ==
  [][\A c \in StillFields :
       FrameOf(c) =>
         /\ Len(Pool(c)') = Len(Pool(c))
         /\ \A k \in DOMAIN Pool(c) :
              IF InsideBounds(Pool(c)[k], sizes[_size[c]])
                THEN Pool(c)'[k] = Pool(c)[k]
                ELSE \E j \in DOMAIN log' :
                       /\ log'[j].ev = "update"
                       /\ log'[j].by = c /\ log'[j].k = k
                       /\ log'[j].was = Pool(c)[k]
                       /\ log'[j].regenerated]_vars

\* a frame of a StarField with velocity (0, 0, 0) has kept a particle that
\* was inside the bounds and regenerated one that was outside
C16_Witness ==
  /\ last.op \in {"animate", "tick"}
  /\ \E c \in StillFields :
       \E i, j \in DOMAIN log :
         /\ log[i].ev = "update" /\ log[i].by = c
         /\ log[j].ev = "update" /\ log[j].by = c
         /\ ~log[i].regenerated /\ log[i].now = log[i].was
         /\ log[i].now = Pool(c)[log[i].k]
         /\ log[j].regenerated /\ log[j].now # log[j].was

\* the updates of the last frame in which a particle has been regenerated
Regenerations ==
  {j \in DOMAIN log : log[j].ev = "update" /\ log[j].regenerated}

\* C17: regeneration respects feedFrom. Whenever a particle is regenerated,
\* its new position lies in the box extended by 250 on all sides of the
\* surface, and on the configured edge: 'top' gives y in [-250, 0], 'bottom'
\* y in [height, height + 250], 'left' x in [-250, 0], 'right' x in
\* [width, width + 250]; 'anywhere' and an unset feedFrom constrain neither
\* coordinate further.
C17_RegenerationRespectsFeedFrom ==
  \A j \in Regenerations :
    LET pt == log[j].now
        w == log[j].size.width
        h == log[j].size.height
        feedFrom == configs[log[j].by].feedFrom
    IN /\ -250 <= pt.x /\ pt.x <= w + 250
       /\ -250 <= pt.y /\ pt.y <= h + 250
       /\ feedFrom = "top" => pt.y <= 0
       /\ feedFrom = "bottom" => pt.y >= h
       /\ feedFrom = "left" => pt.x <= 0
       /\ feedFrom = "right" => pt.x >= w

\* a particle of a StarField fed from an edge has drifted out of the bounds
\* from a position inside them, and has been regenerated
C17_Witness ==
  \E j \in Regenerations :
    /\ configs[log[j].by].feedFrom \in {"top", "bottom", "left", "right"}
    /\ InsideBounds(log[j].was, log[j].size)
    /\ log[j].moved # log[j].was
    /\ log[j].now # log[j].moved

\* the updates of instance c in the frame of the step
UpdatesOf(c) ==
  {j \in DOMAIN log' : log'[j].ev = "update" /\ log'[j].by = c}

\* C20: constant pool size. A step that is not a use() call (a frame, a
\* resize of the surface, a pointer move) leaves every StarField with the
\* array it had and with as many particles as it had; a particle that a
\* frame regenerates is overwritten at its place: the array holds, at the
\* place of every update of the frame, the particle the last update of that
\* place has left.
C20_ConstantPoolSize ==
  [][\A c \in Inst :
       (ClassOf[c] = "StarField" /\ ~UseStep) =>
         /\ dots'[c] = dots[c]
         /\ Len(Pool(c)') = Len(Pool(c))
         /\ \A j \in UpdatesOf(c) :
              /\ log'[j].k \in DOMAIN Pool(c)
              /\ log'[j].k \in DOMAIN Pool(c)'
              /\ (\A i \in UpdatesOf(c) : log'[i].k = log'[j].k => i <= j)
                   => Pool(c)'[log'[j].k] = log'[j].now]_vars

\* after a resize of the surface, a frame has regenerated a particle of a
\* pool of several particles and has kept another
C20_Witness ==
  /\ last.op \in {"animate", "tick"}
  /\ client # Client
  /\ \E j \in Regenerations :
       /\ Len(Pool(log[j].by)) >= 2
       /\ log[j].size = client
       /\ Pool(log[j].by)[log[j].k] = log[j].now
       /\ \E i \in DOMAIN log :
            /\ log[i].ev = "update" /\ log[i].by = log[j].by
            /\ ~log[i].regenerated

\* the registry of root r holds both aliases of the ConstellationConfig
HasBothAliases(r) ==
  /\ Has(registry[_layers[r]], ConstellationConfig.starfield)
  /\ Has(registry[_layers[r]], ConstellationConfig.mousetracker)

\* the instance root r holds under alias `as`
Attached(r, as) == Get(registry[_layers[r]], as).instance

\* C19: live references. When a Constellation whose starfield and
\* mousetracker are given by alias is attached by a use() call that raises
\* nothing to a root that holds both aliases, its `dots` is the very array
\* of the StarField under the alias and its `mousePosition` the very pair of
\* the MouseTracker under the alias, so that what the two layers write
\* later is what the Constellation reads.
C19_LiveReferences ==
  [][\A c \in Inst :
       (/\ ClassOf[c] = "Constellation" /\ configIsString(c)
        /\ UseStep /\ last'.arg = c /\ last'.err = "none"
        /\ HasBothAliases(last'.self)) =>
         /\ dots'[c] = dots[Attached(last'.self, ConstellationConfig.starfield)]
         /\ mousePosition'[c] =
              mousePosition[Attached(last'.self,
                                     ConstellationConfig.mousetracker)]]_vars

\* the StarField that Constellation c is configured with
StarFieldOf(c) ==
  IF configIsString(c) \/ usesGetLayerInstance(c)
    THEN Attached(c, ConstellationConfig.starfield)
    ELSE ConstellationInstances.starfield

\* the draw() calls of Constellations in the last frame
ConstellationDraws == {j \in DOMAIN log : log[j].ev = "constellation"}

\* C18: the skip rule of Constellation. Every draw() of a Constellation
\* draws the marker of the mouse position, and computes the triangulation
\* exactly when the mouse position and the particles of its StarField are 5
\* points or more, that is with 4 particles or more; the triangulation is
\* over all these points.
C18_SkipRule ==
  \A j \in ConstellationDraws :
    LET n == 1 + Len(Pool(StarFieldOf(log[j].by)))
    IN /\ log[j].triangulated <=> n >= 5
       /\ log[j].triangulated => log[j].points = n

\* the updates of particles in the last frame
Updates == {j \in DOMAIN log : log[j].ev = "update"}

\* C21: the asymmetric bounds test. In every frame of a StarField, a
\* particle is regenerated if and only if its position after the drift has
\* x < 0, x > width + 250, y < 0 or y > height; a particle whose position
\* after the drift lies in [0, width + 250] x [0, height] is left with that
\* position and the scale after the drift.
C21_AsymmetricBounds ==
  \A j \in Updates :
    LET pt == log[j].moved
        w == log[j].size.width
        h == log[j].size.height
    IN /\ log[j].regenerated <=>
            (pt.x < 0 \/ pt.x > w + 250 \/ pt.y < 0 \/ pt.y > h)
       /\ ~log[j].regenerated => log[j].now = pt

\* a frame has regenerated a particle that is below the surface but within
\* 250 of it, and has kept another particle where it was
C21_Witness ==
  /\ \E j \in Updates :
       /\ log[j].regenerated
       /\ log[j].moved.x >= 0 /\ log[j].moved.x <= log[j].size.width + 250
       /\ log[j].moved.y > log[j].size.height
       /\ log[j].moved.y <= log[j].size.height + 250
  /\ \E j \in Updates :
       /\ ~log[j].regenerated
       /\ log[j].now = log[j].moved

\* C22: one-time setup. Under any sequence of use() calls, init() has run
\* at most once on every instance: the pool of a StarField holds the
\* particles of one initializePoints, and a MouseTracker has registered at
\* most one mousemove listener.
C22_OneTimeSetup ==
  \A i \in Inst :
    /\ initCount[i] <= 1
    /\ mouseListeners[i] <= 1
    /\ ClassOf[i] = "StarField" =>
         Len(Pool(i)) \in {0, pointsOrDefault(configs[i])}

\* the aliases the config of Constellation c names
AliasesOf(c) ==
  IF configIsString(c)
    THEN {ConstellationConfig.starfield, ConstellationConfig.mousetracker}
  ELSE IF usesGetLayerInstance(c)
    THEN {ConstellationSelectors[f].name :
            f \in {g \in DOMAIN ConstellationSelectors :
                     ConstellationSelectors[g].kind = "string"}}
  ELSE {}

\* the Constellations
Constellations == {c \in Inst : ClassOf[c] = "Constellation"}

\* C23: the missing dependency. A use() call that attaches a Constellation
\* to a root whose registry lacks an alias the Constellation names raises,
\* and resolves nothing; no later use() of another layer resolves it. A
\* use() call that raises nothing leaves a Constellation that looks its
\* layers up with getLayerInstance with the array of the instance under the
\* alias it names and with the pair of the very instance it is given, and a
\* Constellation given two instances with the array and the pair of these.
C23_MissingDependency ==
  [][\A c \in Constellations :
       /\ (UseStep /\ last'.arg = c) =>
            LET reg == registry[_layers[last'.self]]
            IN /\ (\E as \in AliasesOf(c) : ~Has(reg, as)) =>
                    /\ last'.err # "none"
                    /\ dots'[c] = dots[c]
                    /\ mousePosition'[c] = mousePosition[c]
               /\ (last'.err = "none" /\ usesGetLayerInstance(c)) =>
                    /\ dots'[c] =
                         dots[Get(reg, ConstellationSelectors.starfield.name)
                                .instance]
                    /\ mousePosition'[c] =
                         mousePosition[ConstellationSelectors.mousetracker.ref]
               /\ (last'.err = "none" /\ AliasesOf(c) = {}) =>
                    /\ dots'[c] = dots[ConstellationInstances.starfield]
                    /\ mousePosition'[c] =
                         mousePosition[ConstellationInstances.mousetracker]
       /\ (UseStep /\ last'.arg # c) =>
            /\ dots'[c] = dots[c]
            /\ mousePosition'[c] = mousePosition[c]]_vars

\* the use() of a Constellation has raised for the alias of a StarField
\* that the page has attached in a later call
C23_Witness ==
  /\ last.op = "use" /\ last.err = "none"
  /\ ClassOf[last.arg] = "StarField"
  /\ Has(registry[_layers[last.self]], ConstellationConfig.starfield)
  /\ \E c \in Constellations :
       /\ usesGetLayerInstance(c)
       /\ initCount[c] = 1
       /\ ctx[c] = "undefined"
       /\ dots[c] = c

\* C24: attach atomicity. A use(child) call on a root that raises, for a
\* child that is attached already, for a Constellation with an alias that
\* does not resolve or for a root without a canvas, leaves the registry of
\* the root, the zIndex counter of the root and the registry the child
\* refers to exactly as they were before the call.
C24_AttachAtomicity ==
  [][(UseStep /\ last'.err # "none") =>
       LET r == last'.self
           c == last'.arg
       IN /\ _layers'[r] = _layers[r]
          /\ registry'[_layers[r]] = registry[_layers[r]]
          /\ zIndexCounter'[r] = zIndexCounter[r]
          /\ _layers'[c] = _layers[c]
          /\ registry'[_layers[c]] = registry[_layers[c]]]_vars

====
